---- MODULE Spec2Model ----
(***************************************************************************)
(* Model of the MCP request dispatcher of vercel-mcp-python:               *)
(*   - src/src/mcp_server.py : class MCPServer (registry + handle_request) *)
(*   - src/api/index.py      : handler.do_POST and handle_mcp_request      *)
(*                                                                         *)
(* JSON values are records [t, s]: t is the JSON type ("absent" when the   *)
(* key is missing from its dict) and s is the text Python's str() gives.   *)
(* A Python dict is a record with a "keys" set plus one field per key.     *)
(***************************************************************************)
EXTENDS Integers, Sequences, FiniteSets, TLC

VARIABLES
  tools,      \* MCPServer.tools: ordered dict, sequence of [key, value]
  resources,  \* MCPServer.resources: ordered dict, sequence of [key, value]
  entry,      \* entry point of the call in progress / last call
  request,    \* the decoded request handed to the dispatcher
  env,        \* what the file read and the clock gave during the call
  response,   \* the dict the dispatcher returned (NoResponse if it raised)
  raised,     \* str(e) of the exception raised during the call, "" if none
  raisedIn,   \* where it was raised: "", "read", "decode", "dispatch", "write"
  pc,         \* position of do_POST
  post_data,  \* kind of body do_POST read: "none", "empty", "invalid", "json"
  wire,       \* what do_POST has written to the socket for this request
  listed      \* the last MaxListed outputs of tools/list and resources/list

vars == <<tools, resources, entry, request, env, response, raised, raisedIn,
          pc, post_data, wire, listed>>

\* ---------------------------------------------------------------- bounds
MaxListed == 2

\* ------------------------------------------------------------- constants
METHOD_NOT_FOUND == -32601
INTERNAL_ERROR == -32603

\* ------------------------------------------------------------ JSON values
Absent == [t |-> "absent", s |-> ""]
JNull == [t |-> "null", s |-> "None"]
JStr(x) == [t |-> "str", s |-> x]
JNum(x) == [t |-> "num", s |-> x]

\* Python's type name of a JSON value, as AttributeError prints it
PyType(t) ==
  CASE t = "null" -> "NoneType"
    [] t = "str" -> "str"
    [] t = "num" -> "int"
    [] t = "list" -> "list"
    [] OTHER -> "dict"

\* "'list' object has no attribute 'get'"
AttrErr(t) == "'" \o PyType(t) \o "' object has no attribute 'get'"

\* str(v) inside an f-string
Str(v) == IF v.t = "null" THEN "None" ELSE v.s

\* d.get(key): a missing key reads as None
Get(v) == IF v.t = "absent" THEN JNull ELSE v

\* lower-casing of the strings the requests carry
Lower(x) ==
  CASE x = "Initialize" -> "initialize"
    [] x = "TOOLS/CALL" -> "tools/call"
    [] x = "Echo" -> "echo"
    [] x = "GET_TIME" -> "get_time"
    [] x = "CONFIG://SERVER" -> "config://server"
    [] OTHER -> x

\* mutant: the comparison ignores case
EqIgnoreCase(v, lit) == v.t = "str" /\ Lower(v.s) = Lower(lit)

\* v == "literal"
Eq(v, lit) == v.t = "str" /\ v.s = lit

\* ------------------------------------------------------------- registry
Schema(props, req) == [type |-> "object", properties |-> props, required |-> req]

Tool(n, d, props, req) ==
  [name |-> n, description |-> d, inputSchema |-> Schema(props, req)]

EchoTool ==
  Tool("echo", "Echo the provided message back to the user", <<"message">>, <<"message">>)
TimeTool == Tool("get_time", "Get the current server time", <<>>, <<>>)
MasterlistTool ==
  Tool("get_SMMSMasterlist", "Get the Monday SMMS Masterlist board data", <<>>, <<>>)
WebinarTool ==
  Tool("get_webinarAttendees", "Get the Monday webinar attendees board data", <<>>, <<>>)

ConfigResource ==
  [uri |-> "config://server", name |-> "Server Configuration",
   description |-> "Server configuration information", mimeType |-> "application/json"]

\* mutant: the registry advertises a tool that tools/call has no branch for
InitToolsWithBoardsInfo ==
  << [key |-> "echo", value |-> EchoTool],
     [key |-> "get_time", value |-> TimeTool],
     [key |-> "get_SMMSMasterlist", value |-> MasterlistTool],
     [key |-> "get_webinarAttendees", value |-> WebinarTool],
     [key |-> "get_boards_info",
      value |-> Tool("get_boards_info", "Get the Monday boards info", <<>>, <<>>)] >>

\* MCPServer.__init__: self.tools
InitTools ==
  << [key |-> "echo", value |-> EchoTool],
     [key |-> "get_time", value |-> TimeTool],
     [key |-> "get_SMMSMasterlist", value |-> MasterlistTool],
     [key |-> "get_webinarAttendees", value |-> WebinarTool] >>

\* MCPServer.__init__: self.resources
InitResources == << [key |-> "config://server", value |-> ConfigResource] >>

\* list(d.values())
Values(d) == [i \in 1..Len(d) |-> d[i].value]

\* the literal list `tools` of handle_mcp_request
IndexTools == <<EchoTool, TimeTool, MasterlistTool, WebinarTool>>

\* the literal list `resources` of handle_mcp_request
IndexResources == <<ConfigResource>>

\* ------------------------------------------------------------ responses
NoResult == <<>>
NoError == [t |-> "absent", code |-> 0, message |-> ""]

\* no dict was returned (the call raised, or has not been made)
NoResponse ==
  [keys |-> {}, jsonrpc |-> "", id |-> Absent, result |-> NoResult, error |-> NoError]

\* {"jsonrpc": "2.0", "id": id, "result": result}
Success(id, result) ==
  [keys |-> {"jsonrpc", "id", "result"}, jsonrpc |-> "2.0", id |-> id,
   result |-> result, error |-> NoError]

\* mutant: the error response also carries a result key
CreateErrorResponseWithResult(code, message) ==
  [keys |-> {"jsonrpc", "result", "error"}, jsonrpc |-> "2.0", id |-> Absent,
   result |-> NoResult, error |-> [t |-> "obj", code |-> code, message |-> message]]

\* {"jsonrpc": "2.0", "error": {"code": code, "message": message}}
CreateErrorResponse(code, message) ==
  [keys |-> {"jsonrpc", "error"}, jsonrpc |-> "2.0", id |-> Absent,
   result |-> NoResult, error |-> [t |-> "obj", code |-> code, message |-> message]]

\* {"error": text}: the bodies do_POST builds itself
BareError(text) ==
  [keys |-> {"error"}, jsonrpc |-> "", id |-> Absent,
   result |-> NoResult, error |-> [t |-> "str", code |-> 0, message |-> text]]

\* a Python call either returns a value or raises an exception
Return(v) == [raised |-> FALSE, value |-> v, message |-> ""]
Raise(msg) == [raised |-> TRUE, value |-> NoResponse, message |-> msg]

\* ------------------------------------------------------- request fields
NoArguments == [t |-> "absent", message |-> Absent]
EmptyArguments == [t |-> "obj", message |-> Absent]
NoParams == [t |-> "absent", name |-> Absent, arguments |-> NoArguments, uri |-> Absent]
EmptyParams == [t |-> "obj", name |-> Absent, arguments |-> NoArguments, uri |-> Absent]

\* request.get("params", {})
ParamsOf(req) == IF req.params.t = "absent" THEN EmptyParams ELSE req.params

\* params.get("arguments", {})
ArgumentsOf(params) ==
  IF params.arguments.t = "absent" THEN EmptyArguments ELSE params.arguments

\* arguments.get("message", "")
MessageOf(arguments) ==
  IF arguments.message.t = "absent" THEN JStr("") ELSE arguments.message

\* ------------------------------------------------ MCPServer (mcp_server.py)
BoardsPath(file) == "./Boards data" \o "/" \o file

\* the try/except FileNotFoundError around pd.read_csv(file_path)
ReadCsv(file, e) ==
  CASE e.read = "ok" -> Return(e.data)
    [] e.read = "missing" -> Return("File " \o BoardsPath(file) \o " not found.")
    [] OTHER -> Raise("No columns to parse from file")

\* mutant: the id is a fixed number, not the request's
HandleInitializeFixedId(req) ==
  Success(JNum("1"),
          [protocolVersion |-> "2024-11-05",
           capabilities |-> [tools |-> <<>>, resources |-> <<>>],
           serverInfo |-> [name |-> "Vercel MCP Server", version |-> "1.0.0"]])

HandleInitialize(req) ==
  Success(Get(req.id),
          [protocolVersion |-> "2024-11-05",
           capabilities |-> [tools |-> <<>>, resources |-> <<>>],
           serverInfo |-> [name |-> "Vercel MCP Server", version |-> "1.0.0"]])

\* mutant: the descriptors are listed last-registered first
HandleToolsListReversed(req, tls) ==
  Success(Get(req.id),
          [tools |-> [i \in 1..Len(tls) |-> Values(tls)[Len(tls) + 1 - i]]])

HandleToolsList(req, tls) == Success(Get(req.id), [tools |-> Values(tls)])

TextResult(req, text) ==
  Return(Success(Get(req.id), [content |-> <<[type |-> "text", text |-> text]>>]))

HandleToolsCall(req, e) ==
  LET params == ParamsOf(req) IN
  IF params.t # "obj" THEN Raise(AttrErr(params.t))
  ELSE
    LET tool_name == Get(params.name)
        arguments == ArgumentsOf(params)
    IN
    CASE Eq(tool_name, "echo") ->
           IF arguments.t # "obj" THEN Raise(AttrErr(arguments.t))
           ELSE TextResult(req, "Tool echo: " \o Str(MessageOf(arguments)))
      [] Eq(tool_name, "get_time") ->
           TextResult(req, "Current Vercel server time: " \o e.now)
      [] Eq(tool_name, "get_SMMSMasterlist") ->
           LET r == ReadCsv("SMMSMasterList.csv", e) IN
           IF r.raised THEN Raise(r.message) ELSE TextResult(req, r.value)
      [] Eq(tool_name, "get_webinarAttendees") ->
           LET r == ReadCsv("webinarAttendees.csv", e) IN
           IF r.raised THEN Raise(r.message) ELSE TextResult(req, r.value)
      [] OTHER ->
           Return(CreateErrorResponse(METHOD_NOT_FOUND,
                                      "Tool not found: " \o Str(tool_name)))

HandleResourcesList(req, res) == Success(Get(req.id), [resources |-> Values(res)])

\* json.dumps(config, indent=2)
ConfigText ==
  "{\n  \"version\": \"1.0.0\",\n  \"environment\": \"vercel\",\n  \"features\": [\n    \"tools\",\n    \"resources\"\n  ]\n}"

HandleResourcesRead(req) ==
  LET params == ParamsOf(req) IN
  IF params.t # "obj" THEN Raise(AttrErr(params.t))
  ELSE
    LET uri == Get(params.uri) IN
    IF Eq(uri, "config://server")
    THEN Return(Success(Get(req.id),
                        [contents |-> <<[uri |-> uri.s, mimeType |-> "application/json",
                                         text |-> ConfigText]>>]))
    ELSE Return(CreateErrorResponse(METHOD_NOT_FOUND,
                                    "Resource not found: " \o Str(uri)))

\* the body of the try block of handle_request
Route(req, tls, res, e) ==
  IF req.t # "obj" THEN Raise(AttrErr(req.t))
  ELSE
    LET method == Get(req.method) IN
    CASE Eq(method, "initialize") -> Return(HandleInitialize(req))
      [] Eq(method, "tools/list") -> Return(HandleToolsList(req, tls))
      [] Eq(method, "tools/call") -> HandleToolsCall(req, e)
      [] Eq(method, "resources/list") -> Return(HandleResourcesList(req, res))
      [] Eq(method, "resources/read") -> HandleResourcesRead(req)
      [] OTHER -> Return(CreateErrorResponse(METHOD_NOT_FOUND,
                                             "Method not found: " \o Str(method)))

\* handle_request: try Route, except Exception -> -32603
HandleRequestOf(req, tls, res, e) ==
  LET r == Route(req, tls, res, e) IN
  IF r.raised
  THEN CreateErrorResponse(INTERNAL_ERROR, "Internal error: " \o r.message)
  ELSE r.value

\* -------------------------------------------- handle_mcp_request (index.py)
BoardStringPath(file) == "./Board string" \o "/" \o file

\* with open(file_path, "r", encoding='utf-8') as file: result = file.read()
ReadText(file, e) ==
  CASE e.read = "ok" -> Return(e.data)
    [] e.read = "missing" ->
         Raise("[Errno 2] No such file or directory: '" \o BoardStringPath(file) \o "'")
    [] OTHER -> Raise("[Errno 13] Permission denied: '" \o BoardStringPath(file) \o "'")

\* the literal {"jsonrpc": "2.0", "error": {"code": -32601, "message": message}}
IndexError(message) ==
  [keys |-> {"jsonrpc", "error"}, jsonrpc |-> "2.0", id |-> Absent,
   result |-> NoResult,
   error |-> [t |-> "obj", code |-> METHOD_NOT_FOUND, message |-> message]]

IndexInitialize(req) ==
  Success(Get(req.id),
          [protocolVersion |-> "2024-11-05",
           capabilities |-> [tools |-> <<>>, resources |-> <<>>],
           serverInfo |-> [name |-> "Vercel MCP Server", version |-> "1.0.0"]])

IndexToolsList(req) == Success(Get(req.id), [tools |-> IndexTools])

IndexToolsCall(req, e) ==
  LET params == ParamsOf(req) IN
  IF params.t # "obj" THEN Raise(AttrErr(params.t))
  ELSE
    LET tool_name == Get(params.name)
        arguments == ArgumentsOf(params)
    IN
    CASE Eq(tool_name, "echo") ->
           IF arguments.t # "obj" THEN Raise(AttrErr(arguments.t))
           ELSE TextResult(req, "Tool echo: " \o Str(MessageOf(arguments)))
      [] Eq(tool_name, "get_time") ->
           TextResult(req, "Current Vercel server time: " \o e.now)
      [] Eq(tool_name, "get_SMMSMasterlist") ->
           LET r == ReadText("SMMSMasterList.text", e) IN
           IF r.raised THEN Raise(r.message) ELSE TextResult(req, r.value)
      [] Eq(tool_name, "get_webinarAttendees") ->
           LET r == ReadText("webinarAttendees.text", e) IN
           IF r.raised THEN Raise(r.message) ELSE TextResult(req, r.value)
      [] OTHER -> Return(IndexError("Tool not found: " \o Str(tool_name)))

IndexResourcesList(req) == Success(Get(req.id), [resources |-> IndexResources])

IndexResourcesRead(req) ==
  LET params == ParamsOf(req) IN
  IF params.t # "obj" THEN Raise(AttrErr(params.t))
  ELSE
    LET uri == Get(params.uri) IN
    IF Eq(uri, "config://server")
    THEN Return(Success(Get(req.id),
                        [contents |-> <<[uri |-> uri.s, mimeType |-> "application/json",
                                         text |-> ConfigText]>>]))
    ELSE Return(IndexError("Resource not found: " \o Str(uri)))

\* handle_mcp_request: no try block, an exception leaves the function
HandleMcpRequest(req, e) ==
  IF req.t # "obj" THEN Raise(AttrErr(req.t))
  ELSE
    LET method == Get(req.method) IN
    CASE Eq(method, "initialize") -> Return(IndexInitialize(req))
      [] Eq(method, "tools/list") -> Return(IndexToolsList(req))
      [] Eq(method, "tools/call") -> IndexToolsCall(req, e)
      [] Eq(method, "resources/list") -> Return(IndexResourcesList(req))
      [] Eq(method, "resources/read") -> IndexResourcesRead(req)
      [] OTHER -> Return(IndexError("Method not found: " \o Str(method)))

\* ------------------------------------------------------------------ inputs
Ids == {Absent, JNull, JStr("abc"), JNum("7")}

Methods ==
  {JStr("initialize"), JStr("tools/list"), JStr("tools/call"),
   JStr("resources/list"), JStr("resources/read"),
   JStr("foo/bar"), JStr("Initialize"), JStr("TOOLS/CALL"), JStr(""),
   Absent, JNull, JNum("1")}

ToolNames ==
  {JStr("echo"), JStr("get_time"), JStr("get_SMMSMasterlist"),
   JStr("get_webinarAttendees"), JStr("unknown_tool"),
   JStr("get_boards_info"), JStr("Echo"),
   JStr("GET_TIME"), Absent, JNull, JNum("3")}

Uris ==
  {JStr("config://server"), JStr("bogus://x"), JStr("CONFIG://SERVER"),
   Absent, JNull}

Messages == {Absent, JStr("hi"), JStr(""), JNum("5")}

NonObjects == {"null", "list", "str", "num"}

Arguments ==
  {NoArguments} \cup {[t |-> "obj", message |-> m] : m \in Messages}
  \cup {[t |-> k, message |-> Absent] : k \in {"null", "list"}}

\* params of a tools/call
CallParams ==
  {[t |-> "obj", name |-> n, arguments |-> a, uri |-> Absent] :
     n \in ToolNames, a \in Arguments}

\* params of a resources/read
ReadParams ==
  {[t |-> "obj", name |-> Absent, arguments |-> NoArguments, uri |-> u] : u \in Uris}
  \cup {[t |-> "obj", name |-> JStr("echo"), arguments |-> NoArguments,
         uri |-> JStr("config://server")]}

\* params that are absent, or present and not an object
OtherParams ==
  {NoParams, EmptyParams}
  \cup {[t |-> k, name |-> Absent, arguments |-> NoArguments, uri |-> Absent] :
          k \in NonObjects}

ParamsFor(method) ==
  CASE Eq(method, "tools/call") -> CallParams \cup OtherParams
    [] Eq(method, "resources/read") -> ReadParams \cup OtherParams
    [] OTHER -> {NoParams, [t |-> "list", name |-> Absent,
                            arguments |-> NoArguments, uri |-> Absent]}

\* a decoded JSON value that is not an object
NonObjectRequest(k) == [t |-> k, method |-> Absent, id |-> Absent, params |-> NoParams]

Requests ==
  UNION {{[t |-> "obj", method |-> m, id |-> i, params |-> p] :
            i \in Ids, p \in ParamsFor(m)} : m \in Methods}
  \cup {NonObjectRequest(k) : k \in NonObjects}

\* no request decoded yet
NoRequest == [t |-> "none", method |-> Absent, id |-> Absent, params |-> NoParams]

Clock == {"2024-11-05T10:00:00.000001", "2026-01-01T00:00:00"}
FileData == {"[{'Name': 'a', 'Id': 1}]"}
Envs == [read : {"ok", "missing", "error"}, now : Clock, data : FileData]
NoEnv == [read |-> "none", now |-> "", data |-> ""]

\* the file read and the clock matter to tools/call only
EnvsFor(req) == IF Eq(Get(req.method), "tools/call") THEN Envs ELSE {NoEnv}

\* --------------------------------------------------------------- the wire
Status(code) == [kind |-> "status", code |-> code, headers |-> <<>>, body |-> NoResponse]
Headers(names) == [kind |-> "headers", code |-> 0, headers |-> names, body |-> NoResponse]
Body(doc) == [kind |-> "body", code |-> 0, headers |-> <<>>, body |-> doc]

\* json.dumps(response): the same keys, None written as null
JsonDumps(resp) ==
  [resp EXCEPT !.id = IF @.t = "null" THEN [t |-> "null", s |-> "null"] ELSE @]

NoData == [kind |-> "none", json |-> NoRequest]

\* the listing a response carries, if it is the result of a list method
Listing(req, resp) ==
  IF req.t = "obj" /\ "result" \in resp.keys /\ Eq(Get(req.method), "tools/list")
  THEN <<[method |-> "tools/list", output |-> resp.result.tools]>>
  ELSE IF req.t = "obj" /\ "result" \in resp.keys /\ Eq(Get(req.method), "resources/list")
  THEN <<[method |-> "resources/list", output |-> resp.result.resources]>>
  ELSE <<>>

\* keep the last MaxListed listings
Push(log, new) ==
  LET all == log \o new IN
  IF Len(all) > MaxListed THEN SubSeq(all, Len(all) - MaxListed + 1, Len(all)) ELSE all

\* ------------------------------------------------------------------ state
Init ==
  /\ tools = InitTools
  /\ resources = InitResources
  /\ entry = "none"
  /\ request = NoRequest
  /\ env = NoEnv
  /\ response = NoResponse
  /\ raised = ""
  /\ raisedIn = ""
  /\ pc = "idle"
  /\ post_data = NoData
  /\ wire = <<>>
  /\ listed = <<>>

\* a direct call mcp.handle_request(request)
HandleRequest ==
  /\ pc = "idle"
  /\ \E req \in Requests : \E e \in EnvsFor(req) :
       LET r == Route(req, tools, resources, e)
           resp == HandleRequestOf(req, tools, resources, e)
       IN /\ entry' = "handle_request"
          /\ request' = req
          /\ env' = e
          /\ response' = resp
          /\ raised' = r.message
          /\ raisedIn' = IF r.raised THEN "dispatch" ELSE ""
          /\ listed' = Push(listed, Listing(req, resp))
  /\ pc' = "returned"
  /\ UNCHANGED <<tools, resources, post_data, wire>>

\* do_POST lines 39-40: parse Content-Length, read the body
PostRead ==
  /\ pc = "idle"
  /\ entry' = "do_POST"
  /\ \/ /\ post_data' = NoData
        /\ raised' = "invalid literal for int() with base 10: 'abc'"
        /\ raisedIn' = "read"
        /\ pc' = "except"
     \/ /\ \/ post_data' = [kind |-> "empty", json |-> NoRequest]
           \/ post_data' = [kind |-> "invalid", json |-> NoRequest]
           \/ \E req \in Requests : post_data' = [kind |-> "json", json |-> req]
        /\ raised' = ""
        /\ raisedIn' = ""
        /\ pc' = "send200"
  /\ UNCHANGED <<tools, resources, request, env, response, wire, listed>>

\* mutant: the 200 status line and headers are not sent before decoding
SendOkSkipped ==
  /\ pc = "send200"
  /\ pc' = "decode"
  /\ UNCHANGED <<tools, resources, entry, request, env, response, raised,
                 raisedIn, post_data, wire, listed>>

\* do_POST lines 42-45: send_response(200), the two headers, end_headers()
SendOk ==
  /\ pc = "send200"
  /\ wire' = wire \o <<Status(200),
                       Headers(<<"Content-Type", "Access-Control-Allow-Origin">>)>>
  /\ pc' = "decode"
  /\ UNCHANGED <<tools, resources, entry, request, env, response, raised,
                 raisedIn, post_data, listed>>

\* do_POST lines 47-48 and 50-51: json.loads of the body, or the no-data reply
Decode ==
  /\ pc = "decode"
  /\ \/ /\ post_data.kind = "empty"
        /\ response' = BareError("No data received")
        /\ pc' = "write"
        /\ UNCHANGED <<request, raised, raisedIn>>
     \/ /\ post_data.kind = "invalid"
        /\ raised' = "Expecting value: line 1 column 1 (char 0)"
        /\ raisedIn' = "decode"
        /\ pc' = "except"
        /\ UNCHANGED <<request, response>>
     \/ /\ post_data.kind = "json"
        /\ request' = post_data.json
        /\ pc' = "dispatch"
        /\ UNCHANGED <<response, raised, raisedIn>>
  /\ UNCHANGED <<tools, resources, entry, env, post_data, wire, listed>>

\* do_POST line 49: response = handle_mcp_request(request_data)
Dispatch ==
  /\ pc = "dispatch"
  /\ \E e \in EnvsFor(request) :
       LET r == HandleMcpRequest(request, e) IN
       /\ env' = e
       /\ response' = r.value
       /\ raised' = r.message
       /\ raisedIn' = IF r.raised THEN "dispatch" ELSE ""
       /\ pc' = IF r.raised THEN "except" ELSE "write"
       /\ listed' = Push(listed, Listing(request, r.value))
  /\ UNCHANGED <<tools, resources, entry, request, post_data, wire>>

\* do_POST line 53: self.wfile.write(json.dumps(response).encode('utf-8'))
WriteBody ==
  /\ pc = "write"
  /\ \/ /\ wire' = Append(wire, Body(JsonDumps(response)))
        /\ pc' = "done"
        /\ UNCHANGED <<raised, raisedIn>>
     \/ /\ raised' = "[Errno 32] Broken pipe"
        /\ raisedIn' = "write"
        /\ pc' = "except"
        /\ UNCHANGED wire
  /\ UNCHANGED <<tools, resources, entry, request, env, response, post_data, listed>>

\* do_POST lines 55-58: send_response(500), one header, end_headers()
SendError ==
  /\ pc = "except"
  /\ wire' = wire \o <<Status(500), Headers(<<"Content-Type">>)>>
  /\ pc' = "write_error"
  /\ UNCHANGED <<tools, resources, entry, request, env, response, raised,
                 raisedIn, post_data, listed>>

\* do_POST lines 59-60: write {"error": str(e)}
WriteError ==
  /\ pc = "write_error"
  /\ wire' = Append(wire, Body(JsonDumps(BareError(raised))))
  /\ pc' = "done"
  /\ UNCHANGED <<tools, resources, entry, request, env, response, raised,
                 raisedIn, post_data, listed>>

\* the call returns: its locals are discarded, the registry stays
Finish ==
  /\ pc \in {"returned", "done"}
  /\ entry' = "none"
  /\ request' = NoRequest
  /\ env' = NoEnv
  /\ response' = NoResponse
  /\ raised' = ""
  /\ raisedIn' = ""
  /\ pc' = "idle"
  /\ post_data' = NoData
  /\ wire' = <<>>
  /\ UNCHANGED <<tools, resources, listed>>

Next ==
  \/ HandleRequest
  \/ PostRead
  \/ SendOk
  \/ Decode
  \/ Dispatch
  \/ WriteBody
  \/ SendError
  \/ WriteError
  \/ Finish

Spec == Init /\ [][Next]_vars

\* ============================================================== properties
MethodNames ==
  {"initialize", "tools/list", "tools/call", "resources/list", "resources/read"}

DataTools == {"get_SMMSMasterlist", "get_webinarAttendees"}

\* the dispatcher has been called and has returned or raised
Dispatched ==
  \/ entry = "handle_request" /\ pc = "returned"
  \/ /\ entry = "do_POST"
     /\ request.t # "none"
     /\ pc \in {"write", "except", "write_error", "done"}

\* the dispatcher has returned a dict
Returned == Dispatched /\ response.keys # {}

IsSuccess(resp) == "result" \in resp.keys
IsError(resp) == "error" \in resp.keys

IsCall(req, method) == req.t = "obj" /\ Eq(Get(req.method), method)

Statuses(code) == {i \in 1..Len(wire) : wire[i].kind = "status" /\ wire[i].code = code}

\* -------------------------------------------------------------------- C1
\* C1: whenever a dispatcher entry point (handle_request, or
\* handle_mcp_request under do_POST) has finished a request, it has returned
\* a response, and if a failure was raised inside it the response is the
\* error -32603 whose message carries the failure's message.
C1_NoExceptionEscapes ==
  Dispatched =>
    /\ response.keys # {}
    /\ raisedIn = "dispatch" =>
         /\ IsError(response)
         /\ response.error.code = INTERNAL_ERROR
         /\ response.error.message = "Internal error: " \o raised

\* -------------------------------------------------------------------- C2
\* C2 (as amended): every success response has an id key whose value is
\* request.get("id"): a string or number id is echoed, a null id stays null,
\* and an absent id comes back as null.
C2_IdIsRequestGetId ==
  (Returned /\ IsSuccess(response)) =>
    /\ "id" \in response.keys
    /\ response.id = (IF request.id.t = "absent" THEN JNull ELSE request.id)

\* C2 (as stated): the id of a success response is the request's id copied
\* through, an absent id staying absent.
C2_AbsentIdStaysAbsent ==
  (Returned /\ IsSuccess(response)) =>
    IF request.id.t = "absent"
    THEN "id" \notin response.keys
    ELSE "id" \in response.keys /\ response.id = request.id

C2_Witness ==
  /\ Returned
  /\ IsSuccess(response)
  /\ request.id.t = "absent"
  /\ "id" \in response.keys
  /\ response.id = JNull

\* -------------------------------------------------------------------- C3
\* C3: every response a dispatcher returns has jsonrpc "2.0" and exactly one
\* of the keys result and error.
C3_ExactlyOneShape ==
  Returned =>
    /\ "jsonrpc" \in response.keys
    /\ response.jsonrpc = "2.0"
    /\ IsSuccess(response) # IsError(response)

C3_Witness ==
  /\ Returned
  /\ IsError(response)
  /\ ~IsSuccess(response)
  /\ request.t = "obj"

\* -------------------------------------------------------------------- C4
\* C4: a tools/call or resources/read whose params is present and not an
\* object is answered like one whose required field is missing (the lookup
\* miss for the name or uri None), with no exception and no internal error.
C4_NonObjectParamsAsEmpty ==
  (/\ Dispatched
   /\ IsCall(request, "tools/call") \/ IsCall(request, "resources/read")
   /\ request.params.t \in NonObjects) =>
    /\ raisedIn # "dispatch"
    /\ IsError(response)
    /\ response.error.code = METHOD_NOT_FOUND
    /\ response.error.message =
         (IF IsCall(request, "tools/call") THEN "Tool not found: None"
          ELSE "Resource not found: None")

\* -------------------------------------------------------------------- C5
NotFoundTexts ==
  {"File ./Boards data/SMMSMasterList.csv not found.",
   "File ./Boards data/webinarAttendees.csv not found.",
   "File ./Board string/SMMSMasterList.text not found.",
   "File ./Board string/webinarAttendees.text not found."}

IsDataCall(req) ==
  /\ IsCall(req, "tools/call")
  /\ ParamsOf(req).t = "obj"
  /\ Get(ParamsOf(req).name).t = "str"
  /\ Get(ParamsOf(req).name).s \in DataTools

\* C5: a tools/call of a data-backed tool whose file does not exist returns
\* a success response whose text is a not-found message; it neither raises
\* nor returns an error.
C5_MissingFileIsResultText ==
  (Dispatched /\ IsDataCall(request) /\ env.read = "missing") =>
    /\ raisedIn # "dispatch"
    /\ IsSuccess(response)
    /\ ~IsError(response)
    /\ response.result.content[1].text \in NotFoundTexts

\* -------------------------------------------------------------------- C6
KnownMethod(req) == req.method.t = "str" /\ req.method.s \in MethodNames

IsMethodNotFound(req, resp) ==
  /\ IsError(resp)
  /\ resp.error.code = METHOD_NOT_FOUND
  /\ resp.error.message = "Method not found: " \o Str(Get(req.method))

\* C6: a request object is answered with the error -32601 "Method not found:
\* <method>" exactly when its method is not one of the five method names,
\* compared exactly and case-sensitively (a missing method reads as None);
\* every request with such a method gets that response, none is left without.
C6_MethodNotFoundIff ==
  (Dispatched /\ request.t = "obj") =>
    /\ IsMethodNotFound(request, response) <=> ~KnownMethod(request)
    /\ ~KnownMethod(request) => (Returned /\ raisedIn # "dispatch")
    /\ entry = "handle_request" => response.keys # {}

C6_Witness ==
  /\ Dispatched
  /\ request.t = "obj"
  /\ request.method = JStr("Initialize")
  /\ IsMethodNotFound(request, response)
  /\ response.error.message = "Method not found: Initialize"

\* -------------------------------------------------------------------- C7
\* the tool names tools/list returns at this entry point
Advertised ==
  IF entry = "handle_request"
  THEN {Values(tools)[i].name : i \in 1..Len(tools)}
  ELSE {IndexTools[i].name : i \in 1..Len(IndexTools)}

IsToolNotFound(req, resp) ==
  /\ IsError(resp)
  /\ resp.error.code = METHOD_NOT_FOUND
  /\ resp.error.message = "Tool not found: " \o Str(Get(ParamsOf(req).name))

NameRegistered(req) ==
  LET n == Get(ParamsOf(req).name) IN n.t = "str" /\ n.s \in Advertised

\* C7: a tools/call (with params an object or absent) is answered with the
\* error -32601 "Tool not found: <name>" exactly when the name is not one of
\* the names tools/list returns; the registry's keys are those names.
C7_ToolNotFoundIffUnregistered ==
  /\ {tools[i].key : i \in 1..Len(tools)} = {Values(tools)[i].name : i \in 1..Len(tools)}
  /\ (Dispatched /\ IsCall(request, "tools/call") /\ ParamsOf(request).t = "obj") =>
       (IsToolNotFound(request, response) <=> ~NameRegistered(request))

C7_Witness ==
  /\ Dispatched
  /\ entry = "handle_request"
  /\ IsCall(request, "tools/call")
  /\ ParamsOf(request).t = "obj"
  /\ ParamsOf(request).name = JStr("unknown_tool")
  /\ IsToolNotFound(request, response)
  /\ response.error.message = "Tool not found: unknown_tool"

\* -------------------------------------------------------------------- C8
ToolOrder == <<"echo", "get_time", "get_SMMSMasterlist", "get_webinarAttendees">>

Names(descriptors) == [i \in 1..Len(descriptors) |-> descriptors[i].name]

\* C8: at every point of every sequence of requests the registry is as
\* constructed, every tools/list output is the four descriptors in insertion
\* order, every resources/list output is the one resource, and any two
\* outputs of the same list method are identical.
C8_RegistryUnchanged ==
  /\ tools = InitTools
  /\ resources = InitResources
  /\ Names(Values(tools)) = ToolOrder
  /\ \A i \in 1..Len(listed) :
       /\ listed[i].method = "tools/list" =>
            /\ Names(listed[i].output) = ToolOrder
            /\ listed[i].output = Values(InitTools)
       /\ listed[i].method = "resources/list" =>
            listed[i].output = Values(InitResources)
  /\ \A i, j \in 1..Len(listed) :
       listed[i].method = listed[j].method => listed[i].output = listed[j].output

C8_Witness ==
  /\ Len(listed) >= 2
  /\ listed[1].method = "tools/list"
  /\ listed[2].method = "tools/list"
  /\ entry = "handle_request"
  /\ IsCall(request, "tools/list")
  /\ IsSuccess(response)

\* -------------------------------------------------------------------- C9
IsJsonRpcBody(doc) ==
  /\ doc.jsonrpc = "2.0"
  /\ \/ doc.keys = {"jsonrpc", "id", "result"}
     \/ doc.keys = {"jsonrpc", "error"} /\ doc.error.t = "obj"
     \/ doc.keys = {"jsonrpc", "id", "error"} /\ doc.error.t = "obj"

\* C9: every body do_POST writes is one of the two JSON-RPC response shapes.
C9_BodiesAreJsonRpc ==
  \A i \in 1..Len(wire) : wire[i].kind = "body" => IsJsonRpcBody(wire[i].body)

\* ------------------------------------------------------------------- C10
\* C10: do_POST has sent the 200 status line and the headers before it
\* decodes or dispatches; every 500 status line follows a 200 status line of
\* the same request unless the failure was in reading the body; and a
\* failure of decoding or dispatch is reported by a 500 sent after the 200.
C10_OkSentBeforeError ==
  /\ pc \in {"decode", "dispatch"} =>
       /\ Len(wire) = 2
       /\ wire[1] = Status(200)
       /\ wire[2].kind = "headers"
  /\ \A i \in Statuses(500) :
       raisedIn = "read" \/ \E j \in Statuses(200) : j < i
  /\ (raisedIn \in {"decode", "dispatch"} /\ pc \in {"write_error", "done"}) =>
       \E i \in Statuses(500) : \E j \in Statuses(200) : j < i

C10_Witness ==
  /\ entry = "do_POST"
  /\ raisedIn = "dispatch"
  /\ pc = "done"
  /\ Len(wire) = 5
  /\ wire[1] = Status(200)
  /\ wire[3] = Status(500)
  /\ wire[5].kind = "body"

====
